---- MODULE Spec2Model ----
(***************************************************************************)
(* Model of the meal-interpretation pipeline of src/main.py:               *)
(*   extrair_alimentos_da_frase  (Phrase Interpreter)                      *)
(*   buscar_dados_nutricionais   (Nutrient Resolver)                       *)
(*   registrar_refeicao          (Meal Aggregator, RegisterMeal)           *)
(*   get_resumo_do_dia           (Daily Summary Calculator)                *)
(*                                                                         *)
(* Numbers are fixed-point: every nutrient amount, total and calorie goal  *)
(* is an integer count of thousandths (1.234 g is 1234).  Quantities of    *)
(* food are whole grams.  Python's round(x, 2) is rounding to a multiple   *)
(* of 10 thousandths, ties to the even hundredth.                          *)
(* Dictionary keys are written without diacritics ("Proteinas (g)").       *)
(***************************************************************************)
EXTENDS Integers, Sequences, FiniteSets, TLC

VARIABLES
    \* ---- persistent store and clock (shared by the request handlers)
    store,        \* table refeicoes_registradas: sequence of committed rows
    nextId,       \* next value of the primary-key sequence
    now,          \* datetime.utcnow(), in clock ticks
    \* ---- one request, its inputs and its response
    req,          \* the request being served (inputs of the handler)
    resp,         \* the response of the last handler that ran
    lookups,      \* number of USDA lookups issued by the last RegisterMeal
    okIds,        \* ids returned to callers by successful RegisterMeal calls
    calls,        \* number of RegisterMeal calls made so far
    \* ---- one run of buscar_dados_nutricionais, statement by statement
    rpc,          \* position in the resolver / in the aggregator loop body
    item,         \* the item being resolved
    valores,      \* valores_base_100g
    scanned,      \* number of foodNutrients entries scanned so far
    lastNut,      \* the foodNutrients entry scanned last
    achou,        \* whether the lookup answered with a record (data['foods'][0])
    nutrientes,   \* what buscar_dados_nutricionais returned
    acc,          \* the aggregator's accumulators after this item
    \* ---- RegisterMeal requests in flight at the same time
    procs         \* per invocation of registrar_refeicao: its position, its
                  \* request, and the local variables of its call frame

svcVars == <<store, nextId, now, resp, lookups, okIds, calls>>
resVars == <<rpc, item, valores, scanned, lastNut, achou, nutrientes, acc>>
vars == <<store, nextId, now, req, resp, lookups, okIds, calls,
          rpc, item, valores, scanned, lastNut, achou, nutrientes, acc, procs>>

----------------------------------------------------------------------------
(* Bounds of the model *)

\* longest list of items the interpreter returns
MaxItems == 2
\* longest foodNutrients list scanned in one resolver run
MaxNutrients == 2
\* number of RegisterMeal calls in one behaviour of the service
MaxCalls == 2
\* number of RegisterMeal requests in flight at the same time
NProcs == 2

----------------------------------------------------------------------------
(* JSON values: numbers, strings and null, tagged so that they compare *)

Num(n) == [t |-> "num", n |-> n, s |-> ""]
Str(s) == [t |-> "str", n |-> 0, s |-> s]
Null == [t |-> "null", n |-> 0, s |-> ""]
\* a key that a dictionary does not hold
Absent == [t |-> "absent", n |-> 0, s |-> ""]

\* Python truthiness of a JSON value (None, 0 and "" are falsy)
Truthy(v) ==
    CASE v.t = "num" -> v.n # 0
      [] v.t = "str" -> v.s # ""
      [] OTHER -> FALSE

\* nearest integer to n/d (d > 0), a tie going to the even neighbour
RoundHalfEven(n, d) ==
    LET fl == n \div d
        r  == n % d
    IN  IF 2 * r < d THEN fl
        ELSE IF 2 * r > d THEN fl + 1
        ELSE IF fl % 2 = 0 THEN fl ELSE fl + 1

\* round(x, 2) of an amount x given in thousandths
Round2(x) == 10 * RoundHalfEven(x, 10)

----------------------------------------------------------------------------
(* Nutrient Resolver: buscar_dados_nutricionais *)

MacroKeys == {"Calorias (Kcal)", "Proteinas (g)", "Gorduras (g)", "Carboidratos (g)"}

\* a dict over MacroKeys: Absent marks a key the dict does not hold
EmptyDict == [k \in MacroKeys |-> Absent]
DictKeys(d) == {k \in MacroKeys : d[k] # Absent}
\* d.get(k, 0)
DictGet(d, k) == IF d[k] = Absent THEN Num(0) ELSE d[k]

\* str.upper() on the unit names of the model
Upper(s) ==
    CASE s = "kcal" -> "KCAL"
      [] s = "g" -> "G"
      [] s = "mg" -> "MG"
      [] OTHER -> s

\* the key a foodNutrients entry is stored under, "" when no rule matches:
\* the if/elif chain of the scan, on the name and the upper-cased unit
MacroOfAlt(name, unit) ==
    CASE name = "Energy" -> "Calorias (Kcal)"
      [] name = "Protein" -> "Proteinas (g)"
      [] name = "Total lipid (fat)" -> "Gorduras (g)"
      [] name = "Carbohydrate, by difference" -> "Carboidratos (g)"
      [] OTHER -> ""

MacroOf(name, unit) ==
    IF name = "Energy" /\ unit = "KCAL" THEN "Calorias (Kcal)"
    ELSE IF name = "Protein" /\ unit = "G" THEN "Proteinas (g)"
    ELSE IF name = "Total lipid (fat)" /\ unit = "G" THEN "Gorduras (g)"
    ELSE IF name = "Carbohydrate, by difference" /\ unit = "G" THEN "Carboidratos (g)"
    ELSE ""

\* one iteration of the scan over foodNutrients: the dict after the entry, or
\* ok = FALSE when the iteration raises (unitName is not a string, so
\* .upper() raises AttributeError)
ScanNut(d, nut) ==
    IF nut.unitName.t # "str" THEN [ok |-> FALSE, d |-> d]
    ELSE LET key == MacroOf(nut.nutrientName, Upper(nut.unitName.s))
         IN  [ok |-> TRUE,
              d  |-> IF key = "" THEN d
                     ELSE [k \in MacroKeys |-> IF k = key THEN nut.value ELSE d[k]]]

\* the whole scan loop over a foodNutrients list
RECURSIVE ScanAll(_, _)
ScanAll(d, nuts) ==
    IF nuts = <<>> THEN [ok |-> TRUE, d |-> d]
    ELSE LET one == ScanNut(d, Head(nuts))
         IN  IF one.ok THEN ScanAll(one.d, Tail(nuts)) ELSE one

\* results of the resolver: a dict, None, or an exception that leaves it
Vec(d) == [k |-> "vec", d |-> d]
None == [k |-> "none", d |-> EmptyDict]
Raises == [k |-> "raise", d |-> EmptyDict]

\* v * fator rounded to 2 decimals, fator = quantidade / 100.0
EscalarAlt(v, quantidade) == 10 * ((v * quantidade) \div 1000)

Escalar(v, quantidade) == 10 * RoundHalfEven(v * quantidade, 1000)

\* the tail of the resolver once the record is scanned: scaling for 'grama',
\* the unscaled base values for any other unit.  A comparison or a product
\* with a non-number raises TypeError inside the try: the result is None.
Calcular(quantidade, unidade, d) ==
    IF unidade = Str("grama")
    THEN IF quantidade.t # "num" THEN None
         ELSE IF quantidade.n <= 0 THEN None
         ELSE IF \E k \in DictKeys(d) : d[k].t # "num" THEN None
         ELSE Vec([k \in MacroKeys |->
                     IF d[k] = Absent THEN Absent
                     ELSE Num(Escalar(d[k].n, quantidade.n))])
    ELSE Vec(d)

\* item.get(key): None for a key the dict does not hold
ItemGet(it, key) ==
    IF key \notin it.has THEN Null
    ELSE CASE key = "alimento" -> it.alimento
           [] key = "quantidade" -> it.quantidade
           [] OTHER -> it.unidade

\* not all([alimento_nome, quantidade, unidade])
CamposFaltando(it) ==
    \E key \in {"alimento", "quantidade", "unidade"} : ~Truthy(ItemGet(it, key))

\* the resolver on one item and one answer of the lookup service.
\* usda.k: "ok" (a decoded answer whose 'foods' list is usda.foods),
\* "RequestException" (network fault, timeout, non-2xx status),
\* "Exception" (anything else raised inside the try, e.g. no 'foods' key)
buscar_dados_nutricionais(it, usda) ==
    IF it.t # "dict" THEN Raises
    ELSE IF CamposFaltando(it) THEN None
    ELSE IF usda.k # "ok" THEN None
    ELSE IF usda.foods = <<>> THEN None
    ELSE LET scan == ScanAll(EmptyDict, usda.foods[1].foodNutrients)
         IN  IF ~scan.ok THEN None
             ELSE Calcular(ItemGet(it, "quantidade"), ItemGet(it, "unidade"), scan.d)

\* whether the resolver reaches the lookup service for this item
FazConsulta(it) == it.t = "dict" /\ ~CamposFaltando(it)

----------------------------------------------------------------------------
(* Meal Aggregator: the loop body of registrar_refeicao *)

Acc0 == [itens |-> 0, tot |-> [k \in MacroKeys |-> 0], err |-> FALSE]

\* ticks of the clock in one UTC day (timedelta(days=1))
DayLen == 2

\* `if nutrientes:` -- a dict counts when it is not None and not empty
Conta(r) == r.k = "vec" /\ DictKeys(r.d) # {}

\* one iteration of the aggregator's loop on the resolver's result r.
\* err: the iteration raised (the resolver raised, or `+=` met a non-number)
Acumular(a, r) ==
    IF a.err THEN a
    ELSE IF r.k = "raise" THEN [a EXCEPT !.err = TRUE]
    ELSE IF ~Conta(r) THEN a
    ELSE IF \E k \in MacroKeys : DictGet(r.d, k).t # "num"
         THEN [a EXCEPT !.err = TRUE]
    ELSE [itens |-> a.itens + 1,
          tot   |-> [k \in MacroKeys |-> a.tot[k] + DictGet(r.d, k).n],
          err   |-> FALSE]

----------------------------------------------------------------------------
(* Phrase Interpreter: extrair_alimentos_da_frase *)

Keys == {"alimento", "quantidade", "unidade"}

\* the validation loop over the decoded list, in list order: TRUE when every
\* element holds the three keys.  `key in item` raises TypeError on a number,
\* which the function's `except Exception` turns into None.
RECURSIVE ItensValidosAlt(_)
ItensValidosAlt(itens) ==
    IF itens = <<>> THEN TRUE
    ELSE IF Head(itens).t = "num" THEN FALSE
    ELSE IF Keys \subseteq Head(itens).has THEN TRUE
    ELSE ItensValidosAlt(Tail(itens))

RECURSIVE ItensValidos(_)
ItensValidos(itens) ==
    IF itens = <<>> THEN TRUE
    ELSE IF Head(itens).t = "num" THEN FALSE
    ELSE IF ~(Keys \subseteq Head(itens).has) THEN FALSE
    ELSE ItensValidos(Tail(itens))

\* gemini: what the generative service did. "error": the call raised;
\* "malformed": the text is not JSON; "object": the JSON is not a list;
\* "list": the JSON is the list itens.
\* Result: ok = FALSE is the None return.
extrair_alimentos_da_frase(frase, gemini, itens) ==
    IF frase = "" THEN [ok |-> FALSE, lista |-> <<>>]
    ELSE IF gemini # "list" THEN [ok |-> FALSE, lista |-> <<>>]
    ELSE IF ~ItensValidos(itens) THEN [ok |-> FALSE, lista |-> <<>>]
    ELSE [ok |-> TRUE, lista |-> itens]

----------------------------------------------------------------------------
(* RegisterMeal: registrar_refeicao *)

\* the loop over dados_alimentos from item i on: accumulators a, and the
\* number n of lookups issued.  The loop ends at the first iteration that
\* raises.
RECURSIVE Somar(_, _, _, _, _)
Somar(a, n, itens, usda, i) ==
    IF i > Len(itens) \/ a.err THEN [a |-> a, n |-> n]
    ELSE Somar(Acumular(a, buscar_dados_nutricionais(itens[i], usda[i])),
               n + (IF FazConsulta(itens[i]) THEN 1 ELSE 0),
               itens, usda, i + 1)

Resposta(op, code, erro, id, usuario, tot, meta, restantes) ==
    [op |-> op, code |-> code, erro |-> erro, id |-> id, usuario |-> usuario,
     tot |-> tot, meta |-> meta, restantes |-> restantes]
Falha(op, code, erro) == Resposta(op, code, erro, 0, 0, Acc0.tot, 0, 0)

\* the row built at lines 398-406
NovaRefeicao(u, a) ==
    [id |-> nextId, data |-> now, usuario_id |-> u.id,
     tot |-> [k \in MacroKeys |-> Round2(a.tot[k])]]

\* `if not dados_alimentos`: None and the empty list alike
SemDados(dados) == ~dados.ok \/ dados.lista = <<>>

\* `if itens_processados == 0`
NenhumItemAlt(a) == a.itens < 0

NenhumItem(a) == a.itens = 0

\* the whole handler on request r.  r.usda[i] is the answer the lookup
\* service gives for item i; r.db is the step of the persistence block that
\* raises ("none", "commit": db.commit() raises and nothing is written,
\* "refresh": db.refresh() raises after the commit).
RegisterMeal(r) ==
    /\ calls < MaxCalls
    /\ calls' = calls + 1
    /\ LET dados == extrair_alimentos_da_frase(r.frase, r.gemini, r.itens)
           fim   == Somar(Acc0, 0, dados.lista, r.usda, 1)
           row   == NovaRefeicao(r.usuario, fim.a)
       IN  IF SemDados(dados)
           THEN /\ resp' = Falha("registrar", 400, "extraction_failed")
                /\ lookups' = 0
                /\ UNCHANGED <<store, nextId, okIds>>
           ELSE IF fim.a.err
           THEN /\ resp' = Falha("registrar", 500, "unhandled")
                /\ lookups' = fim.n
                /\ UNCHANGED <<store, nextId, okIds>>
           ELSE IF NenhumItem(fim.a)
           THEN /\ resp' = Falha("registrar", 404, "no_items_resolved")
                /\ lookups' = fim.n
                /\ UNCHANGED <<store, nextId, okIds>>
           ELSE IF r.db = "commit"
           THEN /\ resp' = Falha("registrar", 500, "persistence_error")
                /\ lookups' = fim.n
                /\ UNCHANGED <<store, nextId, okIds>>
           ELSE IF r.db = "refresh"
           THEN /\ resp' = Falha("registrar", 500, "persistence_error")
                /\ lookups' = fim.n
                /\ store' = Append(store, row)
                /\ nextId' = nextId + 1
                /\ UNCHANGED okIds
           ELSE /\ resp' = Resposta("registrar", 200, "", row.id, row.usuario_id,
                                    row.tot, 0, 0)
                /\ lookups' = fim.n
                /\ store' = Append(store, row)
                /\ nextId' = nextId + 1
                /\ okIds' = okIds \cup {row.id}
    /\ UNCHANGED <<now, req, resVars, procs>>

----------------------------------------------------------------------------
(* GetDailySummary: get_resumo_do_dia *)

\* the filter of the aggregate query
NoDiaAlt(row, uid, inicio, fim) ==
    row.usuario_id = uid /\ row.data >= inicio /\ row.data <= fim

NoDia(row, uid, inicio, fim) ==
    row.usuario_id = uid /\ row.data >= inicio /\ row.data < fim

\* func.sum(column) over the filtered rows, with `or 0` for SQL's NULL
RECURSIVE SomaColuna(_, _, _, _, _)
SomaColuna(rows, k, uid, inicio, fim) ==
    IF rows = <<>> THEN 0
    ELSE (IF NoDia(Head(rows), uid, inicio, fim) THEN Head(rows).tot[k] ELSE 0)
         + SomaColuna(Tail(rows), k, uid, inicio, fim)

\* calorias_restantes, before the final rounding
Restantes(meta, total_cal) == meta - total_cal

\* falha: the query raised
GetDailySummary(u, falha) ==
    /\ LET inicio == (now \div DayLen) * DayLen
           fim    == inicio + DayLen
           tot    == [k \in MacroKeys |-> SomaColuna(store, k, u.id, inicio, fim)]
       IN  resp' = IF falha THEN Falha("resumo", 500, "summary_error")
                   ELSE Resposta("resumo", 200, "", 0, u.id,
                                 [k \in MacroKeys |-> Round2(tot[k])], u.meta,
                                 Round2(Restantes(u.meta, tot["Calorias (Kcal)"])))
    /\ UNCHANGED <<store, nextId, now, req, lookups, okIds, calls, resVars, procs>>

\* the wall clock read by datetime.utcnow(): it moves, not always forward
Relogio(t) ==
    /\ t # now
    /\ now' = t
    /\ UNCHANGED <<store, nextId, req, resp, lookups, okIds, calls, resVars, procs>>

----------------------------------------------------------------------------
(* Inputs of the resolver runs *)

\* a dict holding the three keys
Item(a, q, u) ==
    [t |-> "dict", has |-> Keys, alimento |-> a, quantidade |-> q, unidade |-> u]
\* a JSON array that holds the three key names as strings: `key in item` is
\* true of it for every key, and it has no .get
ItemLista == [t |-> "list", has |-> Keys, alimento |-> Null, quantidade |-> Null,
              unidade |-> Null]

Quantidades == {Num(0 - 50), Num(0), Num(50), Num(150), Str("cem")}
Unidades == {Str("grama"), Str("xicara")}

ResItems ==
    {Item(Str("arroz"), q, u) : q \in Quantidades, u \in Unidades}
    \cup {Item(Str(""), Num(150), Str("grama")), ItemLista}

\* the entries a foodNutrients list is made of (a null unitName makes
\* .upper() raise)
NutNames == {"Energy", "Protein", "Total lipid (fat)",
             "Carbohydrate, by difference", "Fiber, total dietary"}
NutUnits == {Str("KCAL"), Str("kcal"), Str("G"), Str("MG"), Null}
NutValues == {Num(250), Num(1234), Null}
Nuts == [nutrientName : NutNames, unitName : NutUnits, value : NutValues]

NoNut == [nutrientName |-> "", unitName |-> Str(""), value |-> Num(0)]
NoItem == Item(Null, Null, Null)
NoReq == [usuario |-> [id |-> 0, meta |-> 0], frase |-> "", gemini |-> "",
          itens |-> <<>>, usda |-> <<>>, db |-> ""]
NoResp == Falha("", 0, "")

\* the invocations of registrar_refeicao that may be in flight together
Procs == 1 .. NProcs
\* an invocation that has not been given a request
Ocioso == [pc |-> "idle", req |-> NoReq, dados |-> <<>>, i |-> 0, acc |-> Acc0,
           resp |-> NoResp, rowId |-> 0]
SemPedidos == [p \in Procs |-> Ocioso]

\* answers of the lookup service that carry no record
SemRegistro ==
    {[k |-> "RequestException", foods |-> <<>>],
     [k |-> "Exception", foods |-> <<>>],
     [k |-> "ok", foods |-> <<>>]}

----------------------------------------------------------------------------
(* One run of the resolver and of the loop body that consumes its result *)

SvcIdle ==
    /\ store = <<>> /\ nextId = 1 /\ now = 0 /\ req = NoReq /\ resp = NoResp
    /\ lookups = 0 /\ okIds = {} /\ calls = 0

ResIdle ==
    /\ rpc = "idle" /\ item = NoItem /\ valores = EmptyDict /\ scanned = 0
    /\ lastNut = NoNut /\ achou = FALSE /\ nutrientes = None /\ acc = Acc0

InitResolver ==
    /\ SvcIdle
    /\ rpc = "start" /\ item \in ResItems /\ valores = EmptyDict /\ scanned = 0
    /\ lastNut = NoNut /\ achou = FALSE /\ nutrientes = None /\ acc = Acc0
    /\ procs = SemPedidos

\* lines 155-164 and 184-192: the item is rejected, the lookup fails, or it
\* answers with no record
ResolverSemRegistro(usda) ==
    /\ rpc = "start"
    /\ nutrientes' = buscar_dados_nutricionais(item, usda)
    /\ rpc' = "returned"
    /\ UNCHANGED <<item, valores, scanned, lastNut, achou, acc>>
    /\ UNCHANGED <<svcVars, req, procs>>

\* lines 165-167: the lookup answers with a record
ResolverAchou ==
    /\ rpc = "start"
    /\ FazConsulta(item)
    /\ achou' = TRUE
    /\ valores' = EmptyDict
    /\ rpc' = "scan"
    /\ UNCHANGED <<item, scanned, lastNut, nutrientes, acc>>
    /\ UNCHANGED <<svcVars, req, procs>>

\* lines 168-173: one iteration of the scan
ScanNutriente(nut) ==
    /\ rpc = "scan"
    /\ scanned < MaxNutrients
    /\ scanned' = scanned + 1
    /\ lastNut' = nut
    /\ LET one == ScanNut(valores, nut)
       IN  IF one.ok
           THEN valores' = one.d /\ rpc' = "scan" /\ nutrientes' = nutrientes
           ELSE valores' = valores /\ rpc' = "returned" /\ nutrientes' = None
    /\ UNCHANGED <<item, achou, acc>>
    /\ UNCHANGED <<svcVars, req, procs>>

\* lines 174-183: the scan is over, the values are scaled and returned
FimDoScan ==
    /\ rpc = "scan"
    /\ nutrientes' = Calcular(ItemGet(item, "quantidade"), ItemGet(item, "unidade"),
                              valores)
    /\ rpc' = "returned"
    /\ UNCHANGED <<item, valores, scanned, lastNut, achou, acc>>
    /\ UNCHANGED <<svcVars, req, procs>>

\* lines 382-388: the aggregator's loop body on the returned value
AcumularItem ==
    /\ rpc = "returned"
    /\ acc' = Acumular(acc, nutrientes)
    /\ rpc' = "done"
    /\ UNCHANGED <<item, valores, scanned, lastNut, achou, nutrientes>>
    /\ UNCHANGED <<svcVars, req, procs>>

NextResolver ==
    \/ \E usda \in SemRegistro : ResolverSemRegistro(usda)
    \/ ResolverAchou
    \/ \E nut \in Nuts : ScanNutriente(nut)
    \/ FimDoScan
    \/ AcumularItem

SpecResolver == InitResolver /\ [][NextResolver]_vars

----------------------------------------------------------------------------
(* Inputs of the request handlers *)

\* two users: the default goal of 2000.0 kcal, and a goal of 100.004 kcal
Usuario1 == [id |-> 1, meta |-> 2000 * 1000]
Usuario2 == [id |-> 2, meta |-> 100004]
Usuarios == {Usuario1, Usuario2}

Nut(name, unit, value) == [nutrientName |-> name, unitName |-> unit, value |-> value]
Achado(nuts) == [k |-> "ok", foods |-> <<[foodNutrients |-> nuts]>>]

UsdaErro == [k |-> "RequestException", foods |-> <<>>]
UsdaVazio == [k |-> "ok", foods |-> <<>>]
\* 130 kcal, 2.7 g protein, 0.3 g fat, 28 g carbohydrate per 100 g
UsdaArroz ==
    Achado(<<Nut("Energy", Str("KCAL"), Num(130000)),
             Nut("Protein", Str("G"), Num(2700)),
             Nut("Total lipid (fat)", Str("G"), Num(300)),
             Nut("Carbohydrate, by difference", Str("G"), Num(28000))>>)
\* lower-case units, values with three decimals, protein given in MG
UsdaFrac ==
    Achado(<<Nut("Energy", Str("kcal"), Num(250)),
             Nut("Protein", Str("MG"), Num(9999)),
             Nut("Total lipid (fat)", Str("g"), Num(1234))>>)
\* a record with none of the four recognised entries
UsdaSemMacros == Achado(<<Nut("Fiber, total dietary", Str("G"), Num(1234))>>)
\* a record whose energy value is null
UsdaNull == Achado(<<Nut("Energy", Str("KCAL"), Null)>>)

UsdaMeal == {UsdaErro, UsdaVazio, UsdaArroz, UsdaFrac, UsdaSemMacros, UsdaNull}

ItemArroz == Item(Str("arroz"), Num(150), Str("grama"))
ItemXicara == Item(Str("leite"), Num(2), Str("xicara"))
\* a dict without the key 'unidade'
ItemSemUnidade ==
    [t |-> "dict", has |-> {"alimento", "quantidade"}, alimento |-> Str("arroz"),
     quantidade |-> Num(150), unidade |-> Null]
\* a JSON number in the list
ItemNumero == [t |-> "num", has |-> {}, alimento |-> Null, quantidade |-> Null,
               unidade |-> Null]

\* items the resolver looks up, with a positive and a negative quantity
ItensConsultados ==
    {ItemArroz, ItemXicara, Item(Str("arroz"), Num(0 - 50), Str("grama"))}
\* items the resolver or the interpreter turns away before any lookup
ItensRecusados ==
    {Item(Str("arroz"), Num(0), Str("grama")), ItemLista, ItemSemUnidade, ItemNumero}

\* an item together with the answer the lookup service has for it
Casos == (ItensConsultados \X UsdaMeal) \cup (ItensRecusados \X {UsdaVazio})
ListasDeCasos == UNION {[1 .. n -> Casos] : n \in 0 .. MaxItems}

Pedido(u, frase, gemini, cs, db) ==
    [usuario |-> u, frase |-> frase, gemini |-> gemini,
     itens |-> [i \in 1 .. Len(cs) |-> cs[i][1]],
     usda  |-> [i \in 1 .. Len(cs) |-> cs[i][2]],
     db |-> db]

FalhasDb == {"none", "commit", "refresh"}

Pedidos ==
    {Pedido(u, "almoco", "list", cs, db) :
        u \in Usuarios, cs \in ListasDeCasos, db \in FalhasDb}
    \cup {Pedido(u, "almoco", g, <<>>, "none") :
        u \in Usuarios, g \in {"error", "malformed", "object"}}
    \cup {Pedido(u, "", "list", <<<<ItemArroz, UsdaArroz>>>>, "none") : u \in Usuarios}

\* the requests of the service runs
PedidosSvc ==
    {Pedido(u, "almoco", "list", <<<<ItemArroz, UsdaArroz>>>>, db) :
        u \in Usuarios, db \in FalhasDb}
    \cup {Pedido(u, "almoco", "list", <<<<ItemXicara, UsdaFrac>>>>, "none") :
        u \in Usuarios}
    \cup {Pedido(Usuario1, "almoco", g, cs, "none") :
        g \in {"list", "object"}, cs \in {<<<<ItemArroz, UsdaVazio>>>>}}

\* the clock readings: the ticks of two consecutive UTC days
Tempos == 0 .. 2 * DayLen - 1

----------------------------------------------------------------------------
(* The service: requests arrive one after another *)

Init == SvcIdle /\ ResIdle /\ procs = SemPedidos

Next ==
    \/ \E r \in PedidosSvc : RegisterMeal(r)
    \/ \E u \in Usuarios, falha \in BOOLEAN : GetDailySummary(u, falha)
    \/ \E t \in Tempos : Relogio(t)

Spec == Init /\ [][Next]_vars

(* One RegisterMeal call on each request of Pedidos *)

InitMeal ==
    /\ store = <<>> /\ nextId = 1 /\ now = 0 /\ resp = NoResp
    /\ lookups = 0 /\ okIds = {} /\ calls = 0
    /\ req \in Pedidos
    /\ ResIdle
    /\ procs = SemPedidos

NextMeal == calls = 0 /\ RegisterMeal(req)

SpecMeal == InitMeal /\ [][NextMeal]_vars

----------------------------------------------------------------------------
(* Several RegisterMeal requests in flight at once.  Each invocation of     *)
(* registrar_refeicao runs statement by statement; invocations share the    *)
(* table and its primary-key sequence and nothing else: usuario_atual and   *)
(* db are per-request dependencies, dados_alimentos and the accumulators    *)
(* are locals of the call.  Steps of different invocations interleave at    *)
(* every call the handler makes to another service.                         *)

\* the call frame that holds total_calorias, total_proteinas, total_gorduras,
\* total_carboidratos and itens_processados of invocation p: a single frame
\* for every invocation, as module-level variables would be
QuadroAlt(p) == 1

\* the call frame that holds the accumulators of invocation p: its own
Quadro(p) == p

\* the lists of the concurrent requests: all resolved, one unresolved before
\* a resolved one, none resolved, and an item that makes the resolver raise
ListasConc ==
    {<<<<ItemArroz, UsdaArroz>>>>,
     <<<<ItemArroz, UsdaArroz>>, <<ItemXicara, UsdaFrac>>>>,
     <<<<ItemArroz, UsdaVazio>>, <<ItemArroz, UsdaArroz>>>>,
     <<<<ItemXicara, UsdaFrac>>, <<ItemXicara, UsdaFrac>>>>,
     <<<<ItemArroz, UsdaVazio>>>>,
     <<<<ItemLista, UsdaVazio>>>>}

\* the users of invocation p: the first request comes from either user, the
\* others from the first user, so that requests of the same user and of
\* different users both run together
UsuariosDe(p) == IF p = 1 THEN Usuarios ELSE {Usuario1}

PedidosConc(p) ==
    {Pedido(u, "almoco", "list", cs, "none") : u \in UsuariosDe(p), cs \in ListasConc}
    \cup {Pedido(u, "almoco", "object", <<>>, "none") : u \in UsuariosDe(p)}

\* an invocation that has received request r and has run no statement yet
Recebido(r) == [Ocioso EXCEPT !.pc = "start", !.req = r]

InitConc ==
    /\ SvcIdle /\ ResIdle
    /\ procs \in {f \in [Procs -> UNION {{Recebido(r) : r \in PedidosConc(p)} : p \in Procs}] :
                      \A p \in Procs : f[p].req \in PedidosConc(p)}

\* lines 373-380: the interpreter is called, then the locals are initialised
Interpretar(p) ==
    /\ procs[p].pc = "start"
    /\ LET r     == procs[p].req
           dados == extrair_alimentos_da_frase(r.frase, r.gemini, r.itens)
       IN  IF SemDados(dados)
           THEN procs' = [procs EXCEPT
                            ![p].pc = "done",
                            ![p].resp = Falha("registrar", 400, "extraction_failed")]
           ELSE procs' = [procs EXCEPT
                            ![p].pc = "loop",
                            ![p].dados = dados.lista,
                            ![p].i = 1,
                            ![Quadro(p)].acc = Acc0]
    /\ UNCHANGED <<svcVars, req, resVars>>

\* lines 381-388: one iteration of the loop, around one resolver call
Iterar(p) ==
    /\ procs[p].pc = "loop"
    /\ procs[p].i <= Len(procs[p].dados)
    /\ LET i == procs[p].i
           a == Acumular(procs[Quadro(p)].acc,
                         buscar_dados_nutricionais(procs[p].dados[i],
                                                   procs[p].req.usda[i]))
       IN  IF a.err
           THEN procs' = [procs EXCEPT
                            ![Quadro(p)].acc = a,
                            ![p].pc = "done",
                            ![p].resp = Falha("registrar", 500, "unhandled")]
           ELSE procs' = [procs EXCEPT
                            ![Quadro(p)].acc = a,
                            ![p].i = i + 1]
    /\ UNCHANGED <<svcVars, req, resVars>>

\* lines 390-392: the loop is over, `if itens_processados == 0`
FimDoLaco(p) ==
    /\ procs[p].pc = "loop"
    /\ procs[p].i > Len(procs[p].dados)
    /\ IF NenhumItem(procs[Quadro(p)].acc)
       THEN procs' = [procs EXCEPT
                        ![p].pc = "done",
                        ![p].resp = Falha("registrar", 404, "no_items_resolved")]
       ELSE procs' = [procs EXCEPT ![p].pc = "persist"]
    /\ UNCHANGED <<svcVars, req, resVars>>

\* lines 397-420: the persistence block, in the request's own session.
\* falha is the step that raises, as r.db is in RegisterMeal.
Persistir(p, falha) ==
    /\ procs[p].pc = "persist"
    /\ LET row == NovaRefeicao(procs[p].req.usuario, procs[Quadro(p)].acc)
       IN  IF falha = "commit"
           THEN /\ procs' = [procs EXCEPT
                              ![p].pc = "done",
                              ![p].resp = Falha("registrar", 500, "persistence_error")]
                /\ UNCHANGED <<store, nextId>>
           ELSE IF falha = "refresh"
           THEN /\ procs' = [procs EXCEPT
                              ![p].pc = "done",
                              ![p].rowId = row.id,
                              ![p].resp = Falha("registrar", 500, "persistence_error")]
                /\ store' = Append(store, row)
                /\ nextId' = nextId + 1
           ELSE /\ procs' = [procs EXCEPT
                              ![p].pc = "done",
                              ![p].rowId = row.id,
                              ![p].resp = Resposta("registrar", 200, "", row.id,
                                                   row.usuario_id, row.tot, 0, 0)]
                /\ store' = Append(store, row)
                /\ nextId' = nextId + 1
    /\ UNCHANGED <<now, req, resp, lookups, okIds, calls, resVars>>

NextConc ==
    \/ \E p \in Procs : Interpretar(p)
    \/ \E p \in Procs : Iterar(p)
    \/ \E p \in Procs : FimDoLaco(p)
    \/ \E p \in Procs, falha \in FalhasDb : Persistir(p, falha)

SpecConc == InitConc /\ [][NextConc]_vars

----------------------------------------------------------------------------
(* Properties of the resolver run (checked under SpecResolver) *)

Retornou == rpc \in {"returned", "done"}
EmGramas == item.t = "dict" /\ ItemGet(item, "unidade") = Str("grama")
Qtd == ItemGet(item, "quantidade")
\* the record was scanned to its end: no iteration raised
ScanCompleto == achou /\ lastNut.unitName.t = "str"
BaseNumerica == \A k \in DictKeys(valores) : valores[k].t = "num"

\* r (thousandths) is num/den rounded to 2 decimals: a whole number of
\* hundredths, at most half a hundredth away, the even one on a tie
Arredondado(r, num, den) ==
    /\ r % 10 = 0
    /\ 2 * (den * r - num) <= 10 * den
    /\ 2 * (num - den * r) <= 10 * den
    /\ (2 * (den * r - num) = 10 * den \/ 2 * (num - den * r) = 10 * den)
          => (r \div 10) % 2 = 0

\* C5: scaling law.  For an item in grams with numeric quantity q: when q > 0
\* and the matched record's base vector V is numeric, the resolver returns a
\* vector holding exactly the macros of V, each V[k] * q / 100 rounded to 2
\* decimals; when q <= 0 it returns None.
C5_ScalingLaw ==
    (Retornou /\ EmGramas /\ Qtd.t = "num") =>
        /\ Qtd.n <= 0 => nutrientes = None
        /\ (Qtd.n > 0 /\ ScanCompleto /\ BaseNumerica) =>
              /\ nutrientes.k = "vec"
              /\ DictKeys(nutrientes.d) = DictKeys(valores)
              /\ \A k \in DictKeys(valores) :
                    /\ nutrientes.d[k].t = "num"
                    /\ Arredondado(nutrientes.d[k].n, valores[k].n * Qtd.n, 100)

\* a gram item was scaled and a value had digits to round away
C5_Witness ==
    /\ rpc = "done" /\ EmGramas /\ Qtd.t = "num" /\ Qtd.n > 0
    /\ nutrientes.k = "vec"
    /\ \E k \in DictKeys(valores) :
          valores[k].t = "num" /\ (valores[k].n * Qtd.n) % 1000 # 0

NomesReconhecidos == {"Energy", "Protein", "Total lipid (fat)",
                      "Carbohydrate, by difference"}
UnidadeEsperada(name) == IF name = "Energy" THEN "KCAL" ELSE "G"
MacroDoNome(name) ==
    CASE name = "Energy" -> "Calorias (Kcal)"
      [] name = "Protein" -> "Proteinas (g)"
      [] name = "Total lipid (fat)" -> "Gorduras (g)"
      [] OTHER -> "Carboidratos (g)"
\* a recognised name with a unit that is not the expected one (units are
\* compared without regard to letter case, as the code upper-cases them)
UnidadeErrada(nut) ==
    /\ nut.nutrientName \in NomesReconhecidos
    /\ \/ nut.unitName.t # "str"
       \/ Upper(nut.unitName.s) # UnidadeEsperada(nut.nutrientName)

\* C7: unit-mismatch law.  Scanning an entry with a recognised name and a unit
\* other than the expected one leaves valores_base_100g as it was (the value is
\* neither stored nor converted); a macro the scan left out of
\* valores_base_100g is 0 in the item's vector and adds 0 to the meal total.
C7_UnitMismatch ==
    /\ [][(rpc = "scan" /\ scanned' = scanned + 1 /\ UnidadeErrada(lastNut'))
            => valores' = valores]_vars
    /\ [](Retornou =>
            \A k \in MacroKeys \ DictKeys(valores) :
                /\ DictGet(nutrientes.d, k) = Num(0)
                /\ rpc = "done" => acc.tot[k] = 0)

\* the entry scanned last had the wrong unit, the item was counted, and the
\* macro of that entry added nothing to the total
C7_Witness ==
    /\ rpc = "done" /\ UnidadeErrada(lastNut) /\ lastNut.unitName = Str("MG")
    /\ lastNut.value.t = "num" /\ lastNut.value.n > 0
    /\ nutrientes.k = "vec" /\ acc.itens = 1
    /\ acc.tot[MacroDoNome(lastNut.nutrientName)] = 0

----------------------------------------------------------------------------
(* Properties of one RegisterMeal call (checked under SpecMeal) *)

Feito == calls = 1
N == Len(req.itens)
\* what the resolver returns for item i of the request
Vetor(i) == buscar_dados_nutricionais(req.itens[i], req.usda[i])
\* resolved item: the resolver produced a non-absent vector
Resolvido(i) == Vetor(i).k = "vec"
M == Cardinality({i \in 1 .. N : Resolvido(i)})
\* element i lacks one of the keys alimento / quantidade / unidade
FaltaChave(i) == ~(Keys \subseteq req.itens[i].has)
\* the interpreter was called and returned a list that passes its validation
ListaValida ==
    /\ req.frase # "" /\ req.gemini = "list"
    /\ \A i \in 1 .. N : ~FaltaChave(i) /\ req.itens[i].t # "num"
\* every element is an object, and every resolved vector holds numbers only
ItensBemFormados ==
    \A i \in 1 .. N :
        /\ req.itens[i].t = "dict"
        /\ \A k \in DictKeys(Vetor(i).d) : Vetor(i).d[k].t = "num"

\* sum of macro k over the resolved items among the first i
RECURSIVE SomaResolvidos(_, _)
SomaResolvidos(k, i) ==
    IF i = 0 THEN 0
    ELSE SomaResolvidos(k, i - 1)
         + (IF Resolvido(i) THEN DictGet(Vetor(i).d, k).n ELSE 0)

Persistida(r) ==
    \E j \in 1 .. Len(store) :
        /\ store[j].id = r.id /\ store[j].tot = r.tot
        /\ store[j].usuario_id = req.usuario.id

\* C1: partial success.  When the interpreter returns a valid list of N items
\* of which M >= 1 resolve (and the store accepts the write), the call
\* succeeds and each total, persisted and returned, is the sum of that macro
\* over the M resolved items rounded to 2 decimals.
C1_PartialSuccess ==
    (Feito /\ ListaValida /\ ItensBemFormados /\ req.db = "none" /\ M >= 1) =>
        /\ resp.code = 200
        /\ \A k \in MacroKeys : resp.tot[k] = Round2(SomaResolvidos(k, N))
        /\ Persistida(resp)

\* C2 as stated: a valid list of any length N >= 0 whose items were all
\* processed with none resolved fails with no_items_resolved (404) and
\* creates no MealRecord.
C2_Original ==
    (Feito /\ ListaValida /\ (\A i \in 1 .. N : Vetor(i).k # "raise") /\ M = 0) =>
        /\ resp.code = 404 /\ resp.erro = "no_items_resolved"
        /\ store = <<>>

\* C2 amended: the same for a valid list of length N >= 1 (the empty list
\* fails with extraction_failed, 400).
C2_NoItemsResolved ==
    (Feito /\ ListaValida /\ N >= 1
       /\ (\A i \in 1 .. N : Vetor(i).k # "raise") /\ M = 0) =>
        /\ resp.code = 404 /\ resp.erro = "no_items_resolved"
        /\ store = <<>>

\* two valid items were looked up, neither resolved, and the call ended 404
C2_Witness ==
    /\ Feito /\ ListaValida /\ N = 2 /\ M = 0 /\ lookups = 2
    /\ resp.code = 404 /\ store = <<>>

\* C3: when the interpreter's call fails, its text is not JSON, the JSON is
\* not a list, or one element of the list lacks a key (whatever the other
\* elements are), RegisterMeal fails with extraction_failed (400), issues no
\* lookup and leaves the store as it was.
C3_ExtractionFailed ==
    (Feito /\ (\/ req.gemini \in {"error", "malformed", "object"}
               \/ \E i \in 1 .. N : FaltaChave(i))) =>
        /\ resp.code = 400 /\ resp.erro = "extraction_failed"
        /\ lookups = 0
        /\ store = <<>> /\ okIds = {}

\* a list whose first element is valid and resolvable and whose second lacks
\* a key was rejected as a whole
C3_Witness ==
    /\ Feito /\ req.gemini = "list" /\ N = 2
    /\ req.itens[1] = ItemArroz /\ req.usda[1] = UsdaArroz
    /\ req.itens[2] = ItemSemUnidade
    /\ resp.code = 400 /\ lookups = 0

\* C8: for a list that passed the interpreter's validation, the resolver
\* returns a vector or None for every element and never raises: the call does
\* not end in an unhandled error and every element is processed.
C8_ResolverNeverRaises ==
    (Feito /\ extrair_alimentos_da_frase(req.frase, req.gemini, req.itens).ok) =>
        /\ \A i \in 1 .. N : Vetor(i).k \in {"vec", "none"}
        /\ resp.erro # "unhandled"
        /\ lookups = Cardinality({i \in 1 .. N : FazConsulta(req.itens[i])})

\* the single item of the request is a valid item in grams with a positive
\* quantity, the lookup answers with a well-formed record, nothing else fails
UmItemComRegistro ==
    /\ Feito /\ ListaValida /\ N = 1 /\ req.db = "none"
    /\ req.itens[1].t = "dict" /\ ~CamposFaltando(req.itens[1])
    /\ req.usda[1].k = "ok" /\ req.usda[1].foods # <<>>
    /\ LET nuts == req.usda[1].foods[1].foodNutrients
       IN  \A j \in 1 .. Len(nuts) :
              nuts[j].unitName.t = "str" /\ nuts[j].value.t = "num"

\* C9: a valid item in grams with positive quantity whose lookup returns a
\* record always counts as resolved, the macros missing from the record
\* being 0: the meal succeeds, with all-zero totals when the record has none
\* of the four recognised entries.
C9_EmptyVectorCounts ==
    (UmItemComRegistro /\ req.itens[1].unidade = Str("grama")
       /\ req.itens[1].quantidade.t = "num" /\ req.itens[1].quantidade.n > 0) =>
        /\ Vetor(1).k = "vec"
        /\ resp.code = 200
        /\ \A k \in MacroKeys : resp.tot[k] = Round2(DictGet(Vetor(1).d, k).n)

\* the base-100g values of the record the lookup returned for item 1
BaseDoRegistro == ScanAll(EmptyDict, req.usda[1].foods[1].foodNutrients).d

\* C10: an item whose unit is not 'grama' and whose lookup returns a record
\* gets the record's unscaled base values, is counted as resolved, and those
\* values are added to the totals.
C10_NonGramFallback ==
    (UmItemComRegistro /\ req.itens[1].unidade # Str("grama")) =>
        /\ Vetor(1) = Vec(BaseDoRegistro)
        /\ resp.code = 200
        /\ \A k \in MacroKeys : resp.tot[k] = Round2(DictGet(BaseDoRegistro, k).n)

----------------------------------------------------------------------------
(* Properties of the service (checked under Spec) *)

\* C4: the store holds exactly one MealRecord, with an id of its own, per
\* RegisterMeal call that returned success, and none for a call that
\* returned a failure.
C4_StoreMatchesSuccesses ==
    /\ {store[j].id : j \in 1 .. Len(store)} = okIds
    /\ Cardinality(okIds) = Len(store)

\* rows of user uid stamped within the UTC day the clock is in
LinhasDoDia(uid) ==
    {j \in 1 .. Len(store) :
        store[j].usuario_id = uid /\ store[j].data \div DayLen = now \div DayLen}

RECURSIVE SomaLinhas(_, _)
SomaLinhas(S, k) ==
    IF S = {} THEN 0
    ELSE LET j == CHOOSE x \in S : TRUE
         IN  store[j].tot[k] + SomaLinhas(S \ {j}, k)

\* a step of GetDailySummary that answered
PassoResumo ==
    /\ resp'.op = "resumo" /\ resp'.code = 200
    /\ UNCHANGED <<store, now, calls>>

TotaisDoResumo ==
    \A k \in MacroKeys : resp'.tot[k] = SomaLinhas(LinhasDoDia(resp'.usuario), k)

\* C6 as stated: the totals are the sums over the user's rows of the current
\* UTC day, and calories_remaining is calorie_target - total_calories.
C6_Original ==
    [][PassoResumo =>
         /\ TotaisDoResumo
         /\ resp'.restantes = resp'.meta - resp'.tot["Calorias (Kcal)"]]_vars

\* C6 amended: calories_remaining is calorie_target - total_calories rounded
\* to 2 decimals (not clamped: negative when the total exceeds the target).
C6_DailySummary ==
    [][PassoResumo =>
         /\ TotaisDoResumo
         /\ LinhasDoDia(resp'.usuario) = {} => \A k \in MacroKeys : resp'.tot[k] = 0
         /\ resp'.restantes = Round2(resp'.meta - resp'.tot["Calorias (Kcal)"])]_vars

\* a summary that matches the store, with a negative remainder, while the
\* store also holds a row of another user and a row stamped at the next
\* UTC midnight
C6_Witness ==
    /\ resp.op = "resumo" /\ resp.code = 200 /\ resp.restantes < 0
    /\ \A k \in MacroKeys : resp.tot[k] = SomaLinhas(LinhasDoDia(resp.usuario), k)
    /\ LinhasDoDia(resp.usuario) # {}
    /\ \E j \in 1 .. Len(store) :
          store[j].usuario_id = resp.usuario
          /\ store[j].data = (now \div DayLen) * DayLen + DayLen
    /\ Len(store) > Cardinality(LinhasDoDia(resp.usuario)) 

----------------------------------------------------------------------------
(* Properties of concurrent RegisterMeal requests (checked under SpecConc) *)

\* what invocation p, run alone, has accumulated after its first n items
SoDoPedido(p, n) ==
    Somar(Acc0, 0,
          SubSeq(extrair_alimentos_da_frase(procs[p].req.frase, procs[p].req.gemini,
                                            procs[p].req.itens).lista, 1, n),
          procs[p].req.usda, 1).a

\* the row that invocation p committed
LinhaDe(p) == {j \in 1 .. Len(store) : store[j].id = procs[p].rowId}

\* C11: in every interleaving of concurrent RegisterMeal requests, from the
\* same user or from different users, the resolved count and the running
\* sums of a request in flight are those of its own items resolved so far,
\* whatever the other requests have done; every persisted row was created by
\* exactly one request, carries the user id of that request and the rounded
\* totals of that request's items alone; and a success response returns
\* that row's id and totals.
C11_RequestIsolation ==
    /\ \A p \in Procs :
          /\ procs[p].pc \in {"loop", "persist"}
                => procs[p].acc = SoDoPedido(p, procs[p].i - 1)
          /\ procs[p].rowId # 0
                => /\ LinhaDe(p) # {}
                   /\ \A j \in LinhaDe(p) :
                         /\ store[j].usuario_id = procs[p].req.usuario.id
                         /\ \A k \in MacroKeys :
                               store[j].tot[k] =
                                 Round2(SoDoPedido(p, Len(procs[p].req.itens)).tot[k])
          /\ procs[p].resp.code = 200
                => /\ procs[p].resp.id = procs[p].rowId
                   /\ procs[p].resp.usuario = procs[p].req.usuario.id
                   /\ \A k \in MacroKeys :
                         procs[p].resp.tot[k] =
                           Round2(SoDoPedido(p, Len(procs[p].req.itens)).tot[k])
    /\ \A j \in 1 .. Len(store) :
          Cardinality({p \in Procs : procs[p].rowId = store[j].id}) = 1

\* a request of the second user has committed its row while a request of the
\* first user, with other items, is in the middle of its loop with one item
\* counted, and the two hold different sums
C11_Witness ==
    \E p, q \in Procs :
        /\ p # q
        /\ procs[p].req.usuario.id # procs[q].req.usuario.id
        /\ procs[p].req.itens # procs[q].req.itens
        /\ procs[p].rowId # 0 /\ procs[p].resp.code = 200
        /\ LinhaDe(p) # {}
        /\ procs[q].pc = "loop" /\ procs[q].i = 2 /\ Len(procs[q].dados) = 2
        /\ procs[q].acc.itens = 1
        /\ procs[q].acc.tot # procs[p].acc.tot

====
